---- MODULE Spec2Model ----
(***************************************************************************)
(* Model of the chord finder's computational core (src/app.rs):            *)
(*   - fix_chord_name      chord-name normalisation                        *)
(*   - note_for_fret       fretted-note resolution through the note id     *)
(*   - playback_handle_add bounded cache of playback handles               *)
(*   - TemplateApp::update one frame: text edit, chord parse, fretboard    *)
(*                         grid with per-cell enabled state, note clicks   *)
(* Strings are sequences of one-character strings.  A u128 note id is the  *)
(* set of its set bit positions.  A Note is [pitch, octave].               *)
(***************************************************************************)
EXTENDS Integers, Sequences, FiniteSets, TLC

\* ---------------------------------------------------------------- bounds
\* longest chord text explored by the normaliser specification
MaxLen == 5
\* cap on the number of successful plays explored by the application
MaxPlays == 53
\* largest fret handed to note_for_fret by the codec specification
MaxFretIn == 130

\* ------------------------------------------------------------- constants
MAX_FRET == 16
MAX_HANDLES == 50
\* width of the note identifier (u128)
ID_BITS == 128

\* ------------------------------------------------------------ characters
\* characters the normaliser specification builds its inputs from
Alphabet == {"M", "m", "A", "a", "J", "j", "/", "c"}

\* char::to_ascii_uppercase on the letters the model uses
to_ascii_uppercase(c) ==
    CASE c = "a" -> "A"
      [] c = "b" -> "B"
      [] c = "c" -> "C"
      [] c = "d" -> "D"
      [] c = "e" -> "E"
      [] c = "f" -> "F"
      [] c = "g" -> "G"
      [] c = "j" -> "J"
      [] c = "m" -> "M"
      [] OTHER -> c

\* the pattern 'a'..='g'
IsNoteLetter(c) == c \in {"a", "b", "c", "d", "e", "f", "g"}

\* lines 192-197: capitalise the first character if it is a-g
CapitalizeFirst(chord) ==
    IF chord # <<>> /\ IsNoteLetter(Head(chord))
    THEN <<to_ascii_uppercase(Head(chord))>> \o Tail(chord)
    ELSE chord

\* the loop with a flag that is set by a slash and never cleared
UppercaseAfterSlashSticky(chord, last_was_slash) ==
    [i \in 1..Len(chord) |->
        IF (last_was_slash \/ \E j \in 1..(i - 1) : chord[j] = "/")
           /\ IsNoteLetter(chord[i])
        THEN to_ascii_uppercase(chord[i])
        ELSE chord[i]]

\* lines 200-213: the loop over chars with the last_was_slash flag
RECURSIVE UppercaseAfterSlash(_, _)
UppercaseAfterSlash(chord, last_was_slash) ==
    IF chord = <<>> THEN <<>>
    ELSE LET c == Head(chord)
             pushed == IF last_was_slash /\ IsNoteLetter(c)
                       THEN to_ascii_uppercase(c)
                       ELSE c
         IN  <<pushed>> \o UppercaseAfterSlash(Tail(chord), c = "/")

\* does pat occur in s starting at position i
MatchesAt(s, pat, i) ==
    /\ i + Len(pat) - 1 <= Len(s)
    /\ \A k \in 1..Len(pat) : s[i + k - 1] = pat[k]

\* str::replace: every non-overlapping match, left to right
RECURSIVE replace(_, _, _)
replace(s, from, to) ==
    IF s = <<>> THEN <<>>
    ELSE IF MatchesAt(s, from, 1)
         THEN to \o replace(SubSeq(s, Len(from) + 1, Len(s)), from, to)
         ELSE <<Head(s)>> \o replace(Tail(s), from, to)

maj == <<"m", "a", "j">>

\* the replace calls with the last one writing "Maj"
ReplaceMajTypo(ret) ==
    replace(replace(replace(ret, <<"M", "a", "j">>, maj),
                    <<"M", "A", "j">>, maj),
            <<"M", "A", "J">>, <<"M", "a", "j">>)

\* lines 215-218: the three replace calls, in order
ReplaceMaj(ret) ==
    LET r1 == replace(ret, <<"M", "a", "j">>, maj)
        r2 == replace(r1, <<"M", "A", "j">>, maj)
        r3 == replace(r2, <<"M", "A", "J">>, maj)
    IN  r3

fix_chord_name(chord) ==
    ReplaceMaj(UppercaseAfterSlash(CapitalizeFirst(chord), FALSE))

\* ------------------------------------------------------------ note codec
\* a Note: pitch class 0..11 (C = 0) and octave
Note(pitch, octave) == [pitch |-> pitch, octave |-> octave]

\* position of the single bit of a note's identifier
NoteIndex(n) == 12 * n.octave + n.pitch

\* the notes whose identifier fits the identifier width (C0 .. G10)
Notes == {n \in [pitch : 0..11, octave : 0..10] : NoteIndex(n) < ID_BITS}

\* HasNoteId::id: one bit per semitone, as the set of set bits of the u128
id(n) == {NoteIndex(n)}

\* u128 << usize.  Bits shifted past the width are lost.  A shift amount of
\* ID_BITS or more panics under overflow checks and is masked without them.
shl(bits, amount, checks) ==
    IF amount >= ID_BITS /\ checks
    THEN [panic |-> TRUE, bits |-> {}]
    ELSE LET a == amount % ID_BITS
         IN  [panic |-> FALSE,
              bits  |-> {b + a : b \in {x \in bits : x + a < ID_BITS}}]

\* Note::from_id: Ok for an identifier with exactly one bit set
from_id(bits) ==
    IF Cardinality(bits) = 1
    THEN LET i == CHOOSE b \in bits : TRUE
         IN  [ok |-> TRUE, note |-> Note(i % 12, i \div 12)]
    ELSE [ok |-> FALSE, note |-> Note(0, 0)]

NoNote == Note(0, 0)

\* the outcome of a panic in note_for_fret
Panicked == [panic |-> TRUE, note |-> NoNote]

\* line 102: Result::unwrap
unwrap(decoded) ==
    IF decoded.ok THEN [panic |-> FALSE, note |-> decoded.note] ELSE Panicked

\* line 102 applied to the shifted identifier of line 101
FromShifted(note_id) ==
    IF note_id.panic THEN Panicked ELSE unwrap(from_id(note_id.bits))

\* note_for_fret that decodes the identifier of the open string unshifted
note_for_fret_unshifted(string, fret, checks) ==
    FromShifted(shl(id(string), 0, checks))

\* lines 100-103; the result is the returned Note, or the panic of the
\* shift or of the unwrap
note_for_fret(string, fret, checks) ==
    FromShifted(shl(id(string), fret, checks))

\* ------------------------------------------------- playback handle cache
\* eviction that waits until the cache is over its capacity
evict_if_over(handles) ==
    IF Len(handles) > MAX_HANDLES THEN Tail(handles) ELSE handles

\* eviction that drops the newest entry
evict_newest(handles) ==
    IF Len(handles) >= MAX_HANDLES
    THEN SubSeq(handles, 1, Len(handles) - 1)
    ELSE handles

\* lines 108-110: drop the front entry when the cache is full
evict_if_full(handles) ==
    IF Len(handles) >= MAX_HANDLES THEN Tail(handles) ELSE handles

\* line 111
push(handles, handle) == Append(handles, handle)

\* ------------------------------------------------------------ application
\* lines 379-386: standard tuning E4 B3 G3 D3 A2 E2
tuning == << Note(4, 4), Note(11, 3), Note(7, 3),
             Note(2, 3), Note(9, 2),  Note(4, 2) >>

\* the texts a user types into the chord field
RawTexts == { <<>>,
              <<"c", "m", "a", "j", "7">>,
              <<"C", "M", "A", "J", "7">>,
              <<"C", "/", "g">>,
              <<"A", "m">>,
              <<"C", "m", "A", "J", "7">> }

\* Chord::parse and Chord::chord on the texts of the model: the notes of
\* the chord, or an error
parse(text) ==
    CASE text = <<"C", "m", "a", "j", "7">> ->
            [ok |-> TRUE,
             notes |-> <<Note(0, 4), Note(4, 4), Note(7, 4), Note(11, 4)>>]
      [] text = <<"C", "/", "G">> ->
            [ok |-> TRUE, notes |-> <<Note(7, 3), Note(0, 4), Note(4, 4)>>]
      [] text = <<"A", "m">> ->
            [ok |-> TRUE, notes |-> <<Note(9, 4), Note(0, 5), Note(4, 5)>>]
      [] OTHER -> [ok |-> FALSE, notes |-> <<>>]

\* lines 308, 331-368: chord_pitches is filled only from a chord that
\* parsed, and only when the text is not empty
ChordPitches(text) ==
    LET parsed == parse(text)
    IN  IF text # <<>> /\ parsed.ok
        THEN {parsed.notes[i].pitch : i \in 1..Len(parsed.notes)}
        ELSE {}

\* the membership test without the empty-set case
is_enabled_member_only(note, pitches) == note.pitch \in pitches

\* lines 400-401
is_enabled(note, pitches) == pitches = {} \/ note.pitch \in pitches

\* number of cells of the grid
GridSize == Len(tuning) * MAX_FRET

\* a vertical layout that takes the cell number for the fret
CellOrderFlat(h, k) ==
    IF h
    THEN [string |-> tuning[((k - 1) \div MAX_FRET) + 1],
          fret   |-> (k - 1) % MAX_FRET]
    ELSE [string |-> tuning[Len(tuning) - ((k - 1) % Len(tuning))],
          fret   |-> k - 1]

\* lines 413-435: the k-th (string, fret) the grid visits.  Horizontal:
\* string by string, the frets of each; vertical: fret by fret, the strings
\* of each in reverse
CellOrder(h, k) ==
    IF h
    THEN [string |-> tuning[((k - 1) \div MAX_FRET) + 1],
          fret   |-> (k - 1) % MAX_FRET]
    ELSE [string |-> tuning[Len(tuning) - ((k - 1) % Len(tuning))],
          fret   |-> (k - 1) \div Len(tuning)]

\* lines 399-405: the button of a cell whose note is resolved
Cell(at, r, pitches) ==
    [at      |-> at,
     panic   |-> r.panic,
     note    |-> r.note,
     enabled |-> is_enabled(r.note, pitches)]

\* lines 397-406 for one (string, fret) of the grid
fret_note_widget(at, pitches, checks) ==
    Cell(at, note_for_fret(at.string, at.fret, checks), pitches)

\* the cells before the first one that panicked
Truncate(all, failed) ==
    IF failed = {} THEN [panicked |-> FALSE, cells |-> all]
    ELSE [panicked |-> TRUE,
          cells |-> SubSeq(all, 1,
                       (CHOOSE k \in failed : \A j \in failed : k <= j) - 1)]

UpToPanic(all) == Truncate(all, {k \in 1..GridSize : all[k].panic})

\* lines 408-436: the cells drawn in visiting order, up to the first cell
\* whose note_for_fret panics
DrawCells(h, pitches, checks) ==
    UpToPanic(SubSeq([k \in 1..GridSize |->
                         fret_note_widget(CellOrder(h, k), pitches, checks)],
                     1, GridSize))

\* the texts the chord field can hold
ChordTexts == {fix_chord_name(t) : t \in RawTexts}

VARIABLES
    chord,             \* TemplateApp.chord
    playback_handles,  \* TemplateApp.playback_handles
    plays,             \* number of handles the play call has returned
    pc,                \* "idle", "push" (inside playback_handle_add), "panicked"
    pending,           \* the handle playback_handle_add is about to push
    chord_pitches,     \* chord_pitches of the last frame
    cells,             \* the fretboard cells of the last frame
    horizontal,        \* layout of the last frame
    lastEvent,         \* what the last frame did
    overflow_checks,   \* whether the build checks shift overflow
    input,             \* normaliser: the text given
    output,            \* normaliser: fix_chord_name(input)
    output2,           \* normaliser: fix_chord_name(output)
    npc,               \* normaliser: "start", "once", "twice"
    string,            \* codec: open-string note
    fret,              \* codec: fret
    result,            \* codec: note_for_fret(string, fret)
    result_next,       \* codec: note_for_fret(string, fret + 1)
    cpc                \* codec: "start", "resolved", "both"

appVars == <<chord, playback_handles, plays, pc, pending, chord_pitches,
             cells, horizontal, lastEvent>>
normVars == <<input, output, output2, npc>>
codecVars == <<string, fret, result, result_next, cpc>>
vars == <<appVars, normVars, codecVars, overflow_checks>>

\* the variables of the normaliser and codec specifications at rest
NormIdle == input = <<>> /\ output = <<>> /\ output2 = <<>> /\ npc = "start"
CodecIdle ==
    /\ string = NoNote /\ fret = 0 /\ cpc = "start"
    /\ result = [panic |-> FALSE, note |-> NoNote]
    /\ result_next = [panic |-> FALSE, note |-> NoNote]
AppIdle ==
    /\ chord = <<>> /\ playback_handles = <<>> /\ plays = 0 /\ pc = "idle"
    /\ pending = 0 /\ chord_pitches = {} /\ cells = <<>>
    /\ horizontal = TRUE /\ lastEvent = "init"

\* lines 19-27 and 49-55: the chord text is the default or the text the
\* previous session saved; the handles are never restored
Init ==
    /\ chord \in ChordTexts
    /\ playback_handles = <<>>
    /\ plays = 0
    /\ pc = "idle"
    /\ pending = 0
    /\ chord_pitches = {}
    /\ cells = <<>>
    /\ horizontal \in BOOLEAN
    /\ lastEvent = "init"
    /\ overflow_checks \in BOOLEAN
    /\ NormIdle
    /\ CodecIdle

\* the part of a frame after the text field: parse, chord notes, grid
Frame(text, h, event) ==
    LET drawn == DrawCells(h, ChordPitches(text), overflow_checks)
    IN  /\ chord_pitches' = ChordPitches(text)
        /\ cells' = drawn.cells
        /\ horizontal' = h
        /\ pc' = IF drawn.panicked THEN "panicked" ELSE "idle"
        /\ lastEvent' = event

\* update, nothing changed and nothing clicked
Redraw ==
    /\ pc = "idle"
    /\ \E h \in BOOLEAN : Frame(chord, h, "redraw")
    /\ UNCHANGED <<chord, playback_handles, plays, pending>>
    /\ UNCHANGED <<normVars, codecVars, overflow_checks>>

\* update, the text field changed (lines 313-322)
EditChord ==
    /\ pc = "idle"
    /\ \E raw \in RawTexts, h \in BOOLEAN :
          /\ chord' = fix_chord_name(raw)
          /\ Frame(chord', h, "edit")
    /\ UNCHANGED <<playback_handles, plays, pending>>
    /\ UNCHANGED <<normVars, codecVars, overflow_checks>>

\* the notes that have an enabled button in the frame on screen: the enabled
\* fretboard cells, and the chord notes in the horizontal layout (line 343)
Clickable ==
    {cells[k].note : k \in {j \in 1..Len(cells) : cells[j].enabled}}
    \cup (IF horizontal /\ chord # <<>> /\ parse(chord).ok
          THEN {parse(chord).notes[i] : i \in 1..Len(parse(chord).notes)}
          ELSE {})

\* an Err arm that keeps a handle all the same
ClickErrAdds ==
    /\ pc = "idle"
    /\ cells # <<>>
    /\ Clickable # {}
    /\ lastEvent' = "click_err"
    /\ playback_handles' = push(evict_if_full(playback_handles), 0)
    /\ UNCHANGED <<chord, plays, pc, pending, chord_pitches, cells,
                   horizontal>>
    /\ UNCHANGED <<normVars, codecVars, overflow_checks>>

\* lines 132-146, play returned Err: logged, nothing else
ClickErr ==
    /\ pc = "idle"
    /\ cells # <<>>
    /\ Clickable # {}
    /\ lastEvent' = "click_err"
    /\ UNCHANGED <<chord, playback_handles, plays, pc, pending,
                   chord_pitches, cells, horizontal>>
    /\ UNCHANGED <<normVars, codecVars, overflow_checks>>

\* lines 132-143, play returned Ok(h): playback_handle_add up to the push
ClickOk ==
    /\ pc = "idle"
    /\ cells # <<>>
    /\ plays < MaxPlays
    /\ Clickable # {}
    /\ plays' = plays + 1
    /\ pending' = plays + 1
    /\ playback_handles' = evict_if_full(playback_handles)
    /\ pc' = "push"
    /\ lastEvent' = "click_ok"
    /\ UNCHANGED <<chord, chord_pitches, cells, horizontal>>
    /\ UNCHANGED <<normVars, codecVars, overflow_checks>>

\* line 111: the push that ends playback_handle_add
Push ==
    /\ pc = "push"
    /\ playback_handles' = push(playback_handles, pending)
    /\ pc' = "idle"
    /\ lastEvent' = "push"
    /\ UNCHANGED <<chord, plays, pending, chord_pitches, cells, horizontal>>
    /\ UNCHANGED <<normVars, codecVars, overflow_checks>>

Next == Redraw \/ EditChord \/ ClickErr \/ ClickOk \/ Push

Spec == Init /\ [][Next]_vars

\* ------------------------------------------------- normaliser on its own
\* every text of at most MaxLen characters of the alphabet
Texts == UNION {[1..n -> Alphabet] : n \in 0..MaxLen}

InitNormalize ==
    /\ input \in Texts
    /\ output = <<>>
    /\ output2 = <<>>
    /\ npc = "start"
    /\ overflow_checks = FALSE
    /\ AppIdle
    /\ CodecIdle

\* line 321 on the text typed
Normalize ==
    /\ npc = "start"
    /\ output' = fix_chord_name(input)
    /\ npc' = "once"
    /\ UNCHANGED <<input, output2, appVars, codecVars, overflow_checks>>

\* line 321 again, on the text it produced (the next keystroke's frame)
Renormalize ==
    /\ npc = "once"
    /\ output2' = fix_chord_name(output)
    /\ npc' = "twice"
    /\ UNCHANGED <<input, output, appVars, codecVars, overflow_checks>>

NextNormalize == Normalize \/ Renormalize

SpecNormalize == InitNormalize /\ [][NextNormalize]_vars

\* ------------------------------------------------------ codec on its own
InitCodec ==
    /\ string \in Notes
    /\ fret \in 0..MaxFretIn
    /\ overflow_checks \in BOOLEAN
    /\ result = [panic |-> FALSE, note |-> NoNote]
    /\ result_next = [panic |-> FALSE, note |-> NoNote]
    /\ cpc = "start"
    /\ AppIdle
    /\ NormIdle

\* note_for_fret(string, fret)
Resolve ==
    /\ cpc = "start"
    /\ result' = note_for_fret(string, fret, overflow_checks)
    /\ cpc' = "resolved"
    /\ UNCHANGED <<string, fret, result_next, appVars, normVars,
                   overflow_checks>>

\* note_for_fret(string, fret + 1), when the first call returned
ResolveNext ==
    /\ cpc = "resolved"
    /\ ~result.panic
    /\ result_next' = note_for_fret(string, fret + 1, overflow_checks)
    /\ cpc' = "both"
    /\ UNCHANGED <<string, fret, result, appVars, normVars, overflow_checks>>

NextCodec == Resolve \/ ResolveNext

SpecCodec == InitCodec /\ [][NextCodec]_vars

\* =============================================================== claims
Min(a, b) == IF a <= b THEN a ELSE b

\* C1: the cache never holds more than MAX_HANDLES handles, the state
\* between the eviction and the push of playback_handle_add included.
C1_LengthBounded == Len(playback_handles) <= MAX_HANDLES

\* a full cache inside playback_handle_add: the front entry is gone and the
\* new handle is not pushed yet
C1_Witness ==
    /\ pc = "push"
    /\ plays > MAX_HANDLES
    /\ Len(playback_handles) = MAX_HANDLES - 1

\* C2: between two insertions the cache is the longest suffix, of at most
\* MAX_HANDLES entries, of the handles inserted so far (handle i is the i-th
\* one inserted), in insertion order; after MAX_HANDLES + k insertions it
\* holds exactly MAX_HANDLES entries.
C2_MostRecentSuffix ==
    pc = "idle" =>
        LET n == Min(plays, MAX_HANDLES)
        IN  /\ Len(playback_handles) = n
            /\ \A i \in 1..n : playback_handles[i] = plays - n + i

\* more than MAX_HANDLES insertions done
C2_Witness ==
    /\ pc = "idle"
    /\ plays >= MAX_HANDLES + 2
    /\ Len(playback_handles) = MAX_HANDLES
    /\ playback_handles[1] = plays - MAX_HANDLES + 1

\* C3: normalising the normalised text changes nothing.
C3_Idempotent == npc = "twice" => output2 = output

\* a text the first normalisation changed, normalised twice
C3_Witness == npc = "twice" /\ output # input /\ output2 = output

\* ASCII lowercase of the letters of "maj"
lower(c) ==
    CASE c = "M" -> "m"
      [] c = "A" -> "a"
      [] c = "J" -> "j"
      [] OTHER -> c

\* the three characters of s from position i read "maj" in some casing
IsMajAt(s, i) ==
    /\ i >= 1
    /\ i + 2 <= Len(s)
    /\ <<lower(s[i]), lower(s[i + 1]), lower(s[i + 2])>> = maj

\* C4: the normalised text contains "maj" in no casing but lowercase.
C4_EveryMajLowercase ==
    npc # "start" =>
        \A i \in 1..Len(output) :
            IsMajAt(output, i) => SubSeq(output, i, i + 2) = maj

\* C5: note_for_fret never panics, whatever the open string and the fret.
C5_NeverPanics == cpc # "start" => ~result.panic

\* the note f semitones above n
Transpose(n, f) ==
    Note((n.pitch + f) % 12, n.octave + ((n.pitch + f) \div 12))

\* C6: while the identifier of fret + 1 is representable, note_for_fret at
\* fret + 1 is one semitone above note_for_fret at fret, the octave going up
\* when the pitch class wraps from 11 to 0; fret 0 is the open string and
\* fret f is the open string f semitones up.
C6_SemitonePerFret ==
    NoteIndex(string) + fret + 1 < ID_BITS =>
        /\ cpc # "start" =>
              /\ ~result.panic
              /\ result.note = Transpose(string, fret)
              /\ fret = 0 => result.note = string
        /\ cpc = "both" =>
              /\ ~result_next.panic
              /\ result_next.note =
                    IF result.note.pitch = 11
                    THEN Note(0, result.note.octave + 1)
                    ELSE Note(result.note.pitch + 1, result.note.octave)

\* both frets resolved, the octave wrapping between them
C6_Witness ==
    /\ cpc = "both"
    /\ fret > 0
    /\ result.note.pitch = 11
    /\ result_next.note.pitch = 0
    /\ result_next.note.octave = string.octave + 2

\* C7: in the frame drawn, a cell is enabled exactly when chord_pitches is
\* empty or holds the pitch class of the cell's note; chord_pitches is empty
\* when the chord text is empty or did not parse, and every cell is then
\* enabled.
C7_EnabledRule ==
    /\ \A k \in 1..Len(cells) :
          cells[k].enabled <=>
              (chord_pitches = {} \/ cells[k].note.pitch \in chord_pitches)
    /\ (chord = <<>> \/ ~parse(chord).ok) =>
          /\ chord_pitches = {}
          /\ \A k \in 1..Len(cells) : cells[k].enabled

\* a frame with a parsed chord: some cells enabled, some not
C7_Witness ==
    /\ chord_pitches # {}
    /\ \E k \in 1..Len(cells) : cells[k].enabled
    /\ \E k \in 1..Len(cells) : ~cells[k].enabled

\* position i of the text is a-g and is first or follows a slash
Eligible(s, i) == IsNoteLetter(s[i]) /\ (i = 1 \/ s[i - 1] = "/")

\* position i of the text lies in three characters that read "maj" in some
\* casing and that the output has as lowercase "maj"
InFoldedMaj(s, out, i) ==
    \E j \in (i - 2)..i :
        IsMajAt(s, j) /\ j + 2 <= Len(out) /\ SubSeq(out, j, j + 2) = maj

\* C8: the output is as long as the input and, outside the characters the
\* maj rule lowercased, a character is changed exactly when it is a-g and is
\* first or follows a slash, and then to its uppercase.
C8_OnlyEligibleUppercased ==
    npc # "start" =>
        /\ Len(output) = Len(input)
        /\ \A i \in 1..Len(input) :
              \/ InFoldedMaj(input, output, i)
              \/ /\ Eligible(input, i) =>
                        /\ output[i] = to_ascii_uppercase(input[i])
                        /\ output[i] # input[i]
                 /\ ~Eligible(input, i) => output[i] = input[i]

\* a text whose first character and a character after a slash were both
\* uppercased, and a lowercase a-g elsewhere that was kept
C8_Witness ==
    /\ npc = "once"
    /\ Len(input) = 4
    /\ Eligible(input, 1)
    /\ Eligible(input, 3)
    /\ input[4] = "c"
    /\ output = <<to_ascii_uppercase(input[1]), "/",
                  to_ascii_uppercase(input[3]), "c">>

\* C9: the cache starts empty, and a click whose play call failed, a chord
\* edit and a plain redraw leave it as it was: only playback_handle_add
\* after a successful play changes it.
C9_CacheFrame ==
    /\ playback_handles = <<>>
    /\ [][/\ lastEvent' \in {"click_err", "edit", "redraw"} =>
                playback_handles' = playback_handles
          /\ playback_handles' # playback_handles =>
                lastEvent' \in {"click_ok", "push"}]_vars

\* a failed click on a cache that holds handles
C9_Witness == lastEvent = "click_err" /\ Len(playback_handles) > 1

\* C10: with the standard tuning and MAX_FRET frets no frame panics: in
\* either layout the whole grid is drawn, every shifted identifier stays
\* inside the identifier width and decodes to the note fret semitones up.
C10_ShippedGridResolves ==
    /\ pc # "panicked"
    /\ lastEvent # "init" => Len(cells) = GridSize
    /\ \A k \in 1..Len(cells) :
          /\ cells[k].at = CellOrder(horizontal, k)
          /\ NoteIndex(cells[k].at.string) + cells[k].at.fret < ID_BITS
          /\ ~cells[k].panic
          /\ cells[k].note = Transpose(cells[k].at.string, cells[k].at.fret)

\* a vertical frame, drawn to its last cell: the highest string at the
\* last fret
C10_Witness ==
    /\ ~horizontal
    /\ Len(cells) = GridSize
    /\ cells[GridSize].at = [string |-> tuning[1], fret |-> MAX_FRET - 1]

====
